---------------------------- MODULE Spec2Model ----------------------------
(***************************************************************************)
(* Model of the RAG document server of python_rag_server:                  *)
(*   rag_server.py          the orchestrator (request handlers, registry,  *)
(*                          background processing task)                    *)
(*   faiss_vector_store.py  FAISSVectorStore, both backends: the FAISS     *)
(*                          index (FAISS_AVAILABLE) and the linear scan    *)
(*   document_processor.py  create_chunks / get_overlap_text               *)
(*                                                                         *)
(* Similarity scores are fixed-point numbers scaled by UnitNorm*UnitNorm:  *)
(* an L2-normalised vector has integer length UnitNorm, so the inner       *)
(* product of two normalised vectors lies in -100..100 and the score 1.0   *)
(* is 100, the threshold 0.7 is 70.                                        *)
(*                                                                         *)
(* A Python dict (self.metadata) is a sequence of records in insertion     *)
(* order, each carrying its key.  None (self.index without FAISS, the      *)
(* "embedding" field with FAISS) is the empty tuple, which is falsy in     *)
(* the same tests in which the code tests None.                           *)
(***************************************************************************)
EXTENDS Integers, Sequences, FiniteSets, TLC

(***************************************************************************)
(* Bounds of the model.                                                    *)
(***************************************************************************)
MaxDocs == 2
MaxChunks == 2
MaxAdds == 2
MaxSentences == 3
MaxWords == 2
MaxPages == 3

(***************************************************************************)
(* Program constants.                                                      *)
(***************************************************************************)
UnitNorm == 10
DefaultMaxResults == 10
DefaultSimilarityThreshold == 7 * UnitNorm

VARIABLES
    FAISS_AVAILABLE,  \* module flag of faiss_vector_store.py, fixed at start
    index,            \* self.index: the vectors of the FAISS index, in order
    metadata,         \* self.metadata: dict, as a sequence of keyed records
    chunk_counter,    \* self.chunk_counter
    index_file,       \* faiss_db/index.faiss    [exists, data]
    metadata_file,    \* faiss_db/metadata.json  [exists, data]
    documents_file,   \* rag_data/documents.json: the list of document records
    next_id,          \* number of uuid4 document ids handed out so far
    tasks,            \* background task of each document id
    deleted,          \* history: ids whose DELETE request has returned 200
    last,             \* the operation that ran last, with its response
    cp,               \* state of one run of DocumentProcessor.create_chunks
    twin,             \* a second FAISSVectorStore, built without FAISS
    pdf               \* state of one run of DocumentProcessor.extract_pdf_text

storeVars == <<index, metadata, chunk_counter, index_file, metadata_file>>
serverVars == <<FAISS_AVAILABLE, index, metadata, chunk_counter, index_file,
                metadata_file, documents_file, next_id, tasks, deleted,
                last, twin, pdf>>
vars == <<FAISS_AVAILABLE, index, metadata, chunk_counter, index_file,
          metadata_file, documents_file, next_id, tasks, deleted, last, cp, twin, pdf>>

(***************************************************************************)
(* Generic helpers.                                                        *)
(***************************************************************************)
Range(s) == {s[i] : i \in 1..Len(s)}

Min(a, b) == IF a <= b THEN a ELSE b

SelectIdx(s, Keep(_)) ==
    LET F[i \in 0..Len(s)] ==
            IF i = 0 THEN <<>>
            ELSE IF Keep(s[i]) THEN Append(F[i-1], i) ELSE F[i-1]
    IN F[Len(s)]

ISqrt(n) == CHOOSE r \in 0..(4 * UnitNorm) : r * r <= n /\ n < (r + 1) * (r + 1)

Dot(a, b) == a[1] * b[1] + a[2] * b[2]

(***************************************************************************)
(* The embedding model.  Texts are the chunk contents and queries; the     *)
(* model maps equal texts to equal vectors and different texts to          *)
(* different directions, with lengths that differ from text to text.       *)
(***************************************************************************)
Texts == {1, 2, 3}

encode(t) ==
    CASE t = 1 -> <<20, 0>>
      [] t = 2 -> <<8, 6>>
      [] t = 3 -> <<18, 24>>
      [] OTHER -> <<0, 10>>

\* embeddings / np.linalg.norm(embeddings, axis=1, keepdims=True)
normalize(v) ==
    LET n == ISqrt(Dot(v, v))
    IN  <<(v[1] * UnitNorm) \div n, (v[2] * UnitNorm) \div n>>

None == <<>>
Truthy(x) == Len(x) > 0

NoFile == [exists |-> FALSE, data |-> <<>>]
File(d) == [exists |-> TRUE, data |-> d]

(***************************************************************************)
(* FAISSVectorStore.  A store value is [index, metadata, chunk_counter],   *)
(* a disk value is [index_file, metadata_file].                            *)
(***************************************************************************)
NewStore == [index |-> <<>>, metadata |-> <<>>, chunk_counter |-> 0]

vs_load_index(faiss, disk) ==
    IF disk.index_file.exists /\ disk.metadata_file.exists
    THEN [index |-> IF faiss THEN disk.index_file.data ELSE None,
          metadata |-> disk.metadata_file.data,
          chunk_counter |-> Len(disk.metadata_file.data)]
    ELSE NewStore

vs_save_index(faiss, s, disk) ==
    [index_file |-> IF faiss THEN File(s.index) ELSE disk.index_file,
     metadata_file |-> File(s.metadata)]

\* self.metadata[key] = rec
DictSet(md, key, rec) ==
    IF \E i \in 1..Len(md) : md[i].key = key
    THEN [i \in 1..Len(md) |-> IF md[i].key = key THEN rec ELSE md[i]]
    ELSE Append(md, rec)

DictGet(md, key) ==
    LET hits == SelectIdx(md, LAMBDA r : r.key = key)
    IN  IF hits = <<>> THEN None ELSE <<md[hits[1]]>>

MetaRecord(faiss, key, doc_id, chunk, emb) ==
    [key |-> key,
     chunk_id |-> <<doc_id, chunk.id>>,
     document_id |-> doc_id,
     content |-> chunk.content,
     chunk_index |-> chunk.chunkIndex,
     embedding |-> IF faiss THEN None ELSE emb]

\* add_document when generate_embeddings succeeds; an empty chunk list
\* returns before anything is written
vs_add_document(faiss, s, disk, doc_id, chunks) ==
    IF chunks = <<>> THEN [store |-> s, disk |-> disk] ELSE
    LET embeddings == [i \in 1..Len(chunks) |-> normalize(encode(chunks[i].content))]
        AddMeta[i \in 0..Len(chunks)] ==
            IF i = 0 THEN s.metadata
            ELSE DictSet(AddMeta[i-1], s.chunk_counter + i - 1,
                         MetaRecord(faiss, s.chunk_counter + i - 1, doc_id,
                                    chunks[i], embeddings[i]))
        s1 == [index |-> IF faiss THEN s.index \o embeddings ELSE s.index,
               metadata |-> AddMeta[Len(chunks)],
               chunk_counter |-> s.chunk_counter + Len(chunks)]
    IN  [store |-> s1, disk |-> vs_save_index(faiss, s1, disk)]

\* rebuild_index without the allocation of a fresh index: the surviving
\* vectors are added to the index that still holds the old ones
vs_rebuild_index_on_old_index(faiss, s, disk) ==
    IF ~faiss THEN [store |-> s, disk |-> disk]
    ELSE LET keep == SelectIdx(s.metadata, LAMBDA r : Truthy(r.embedding))
             s1 == [index |-> s.index \o
                        [i \in 1..Len(keep) |-> s.metadata[keep[i]].embedding],
                    metadata |-> [i \in 1..Len(keep) |->
                                    [s.metadata[keep[i]] EXCEPT !.key = i - 1]],
                    chunk_counter |-> Len(keep)]
         IN  [store |-> s1, disk |-> vs_save_index(faiss, s1, disk)]

vs_rebuild_index(faiss, s, disk) ==
    IF ~faiss THEN [store |-> s, disk |-> disk]
    ELSE LET keep == SelectIdx(s.metadata, LAMBDA r : Truthy(r.embedding))
             s1 == [index |-> [i \in 1..Len(keep) |-> s.metadata[keep[i]].embedding],
                    metadata |-> [i \in 1..Len(keep) |->
                                    [s.metadata[keep[i]] EXCEPT !.key = i - 1]],
                    chunk_counter |-> Len(keep)]
         IN  [store |-> s1, disk |-> vs_save_index(faiss, s1, disk)]

\* rebuild_index is awaited whether or not a record was removed
vs_delete_document_always_rebuilds(faiss, s, disk, doc_id) ==
    LET keep == SelectIdx(s.metadata, LAMBDA r : r.document_id # doc_id)
        s1 == [s EXCEPT !.metadata = [i \in 1..Len(keep) |-> s.metadata[keep[i]]]]
    IN  vs_rebuild_index(faiss, s1, disk)

vs_delete_document(faiss, s, disk, doc_id) ==
    LET indices_to_delete == SelectIdx(s.metadata, LAMBDA r : r.document_id = doc_id)
        keep == SelectIdx(s.metadata, LAMBDA r : r.document_id # doc_id)
        s1 == [s EXCEPT !.metadata = [i \in 1..Len(keep) |-> s.metadata[keep[i]]]]
    IN  IF indices_to_delete # <<>>
        THEN vs_rebuild_index(faiss, s1, disk)
        ELSE [store |-> s1, disk |-> disk]

\* clear_all without the call of save_index
vs_clear_all_unsaved(faiss, s, disk) ==
    [store |-> NewStore, disk |-> disk]

vs_clear_all(faiss, s, disk) ==
    [store |-> NewStore, disk |-> vs_save_index(faiss, NewStore, disk)]


\* Positions 1..Len(sc) ordered by descending score; equal scores keep their
\* original order (faiss's flat scan and Python's stable sorted(reverse=True)).
RankDesc(sc, i) ==
    1 + Cardinality({j \in 1..Len(sc) : sc[j] > sc[i] \/ (sc[j] = sc[i] /\ j < i)})

OrderDesc(sc) ==
    [p \in 1..Len(sc) |-> CHOOSE i \in 1..Len(sc) : RankDesc(sc, i) = p]

RAGChunk(m) ==
    [id |-> m.chunk_id, documentId |-> m.document_id,
     content |-> m.content, chunkIndex |-> m.chunk_index]

\* the threshold test written with > instead of >=
search_faiss_strict(s, q, max_results, similarity_threshold) ==
    LET k == Min(max_results, Len(s.index))
        sims == [i \in 1..Len(s.index) |-> Dot(q, s.index[i])]
        order == OrderDesc(sims)
        Hit(p) == /\ sims[order[p]] > similarity_threshold
                  /\ Truthy(DictGet(s.metadata, order[p] - 1))
        F[p \in 0..k] ==
            IF p = 0 THEN [chunks |-> <<>>, scores |-> <<>>]
            ELSE IF Hit(p)
                 THEN [chunks |-> Append(F[p-1].chunks,
                                    RAGChunk(DictGet(s.metadata, order[p] - 1)[1])),
                       scores |-> Append(F[p-1].scores, sims[order[p]])]
                 ELSE F[p-1]
    IN  F[k]

\* FAISS path of search: index.search(query, k), then the threshold filter
search_faiss(s, q, max_results, similarity_threshold) ==
    LET k == Min(max_results, Len(s.index))
        sims == [i \in 1..Len(s.index) |-> Dot(q, s.index[i])]
        order == OrderDesc(sims)
        Hit(p) == /\ sims[order[p]] >= similarity_threshold
                  /\ Truthy(DictGet(s.metadata, order[p] - 1))
        F[p \in 0..k] ==
            IF p = 0 THEN [chunks |-> <<>>, scores |-> <<>>]
            ELSE IF Hit(p)
                 THEN [chunks |-> Append(F[p-1].chunks,
                                    RAGChunk(DictGet(s.metadata, order[p] - 1)[1])),
                       scores |-> Append(F[p-1].scores, sims[order[p]])]
                 ELSE F[p-1]
    IN  F[k]

\* the sorted pairs returned without the cut to max_results
search_linear_uncut(s, q, max_results, similarity_threshold) ==
    LET sim(r) == Dot(q, r.embedding)
        hits == SelectIdx(s.metadata,
                    LAMBDA r : Truthy(r.embedding) /\ sim(r) >= similarity_threshold)
        sc == [i \in 1..Len(hits) |-> sim(s.metadata[hits[i]])]
        order == OrderDesc(sc)
        n == Len(hits)
    IN  [chunks |-> [p \in 1..n |-> RAGChunk(s.metadata[hits[order[p]]])],
         scores |-> [p \in 1..n |-> sc[order[p]]]]

\* linear-scan path of search: filter, sort by similarity, cut to max_results
search_linear(s, q, max_results, similarity_threshold) ==
    LET sim(r) == Dot(q, r.embedding)
        hits == SelectIdx(s.metadata,
                    LAMBDA r : Truthy(r.embedding) /\ sim(r) >= similarity_threshold)
        sc == [i \in 1..Len(hits) |-> sim(s.metadata[hits[i]])]
        order == OrderDesc(sc)
        n == Min(max_results, Len(hits))
    IN  [chunks |-> [p \in 1..n |-> RAGChunk(s.metadata[hits[order[p]]])],
         scores |-> [p \in 1..n |-> sc[order[p]]]]

vs_search(faiss, s, query, max_results, similarity_threshold) ==
    LET q == normalize(encode(query))
    IN  IF faiss /\ Len(s.index) > 0
        THEN search_faiss(s, q, max_results, similarity_threshold)
        ELSE IF ~faiss
        THEN search_linear(s, q, max_results, similarity_threshold)
        ELSE [chunks |-> <<>>, scores |-> <<>>]

(***************************************************************************)
(* The document registry (documents.json) of RAGServer.                    *)
(***************************************************************************)
Statuses == {"pending", "processing", "completed", "failed"}

\* a missing registry file reads as the empty list
load_documents(file) == IF file.exists THEN file.data ELSE <<>>

save_documents(documents) == File(documents)

\* the registry is written with the new record only
save_document_overwrites(file, document) == save_documents(<<document>>)

save_document(file, document) == save_documents(Append(load_documents(file), document))

\* the status is changed in the loaded list and the list is not saved
update_document_status_unsaved(file, doc_id, status) ==
    file

\* the first record with the id is updated (for ... if ...: ...; break)
update_document_status(file, doc_id, status) ==
    LET documents == load_documents(file)
        hits == SelectIdx(documents, LAMBDA d : d.id = doc_id)
    IN  save_documents(
            IF hits = <<>> THEN documents
            ELSE [documents EXCEPT ![hits[1]].processingStatus = status])

\* lines 259-270 of process_document_async
write_back(file, doc_id, content, chunks) ==
    LET documents == load_documents(file)
        hits == SelectIdx(documents, LAMBDA d : d.id = doc_id)
    IN  save_documents(
            IF hits = <<>> THEN documents
            ELSE [documents EXCEPT ![hits[1]].content = content,
                                   ![hits[1]].chunkCount = Len(chunks),
                                   ![hits[1]].processingStatus = "completed"])

\* request.maxResults or self.config.maxResults  (an omitted field is <<>>)
OrDefault(opt, default) ==
    IF opt = <<>> \/ opt[1] = 0 THEN default ELSE opt[1]

allowed_types == {"pdf", "docx", "txt", "xlsx", "xls"}

store == [index |-> index, metadata |-> metadata, chunk_counter |-> chunk_counter]
disk == [index_file |-> index_file, metadata_file |-> metadata_file]

SetStore(r) ==
    /\ index' = r.store.index
    /\ metadata' = r.store.metadata
    /\ chunk_counter' = r.store.chunk_counter
    /\ index_file' = r.disk.index_file
    /\ metadata_file' = r.disk.metadata_file

NoTask == [pc |-> "none", chunks |-> <<>>, failed |-> FALSE]

Last(op, code, id) ==
    [op |-> op, code |-> code, id |-> id, status |-> "",
     chunks |-> <<>>, scores |-> <<>>, args |-> <<>>]

\* the state of extract_pdf_text while no PDF is being read
PdfIdle == [pc |-> "idle", pages |-> <<>>, page_num |-> 0, text |-> <<>>]

\* the second store before construction
NoTwin ==
    [store |-> NewStore, disk |-> [index_file |-> NoFile, metadata_file |-> NoFile],
     chunks |-> <<>>, scores |-> <<>>]

\* the state of create_chunks while no text is being chunked
CpIdle ==
    [pc |-> "idle", text |-> <<>>, sentences |-> <<>>, chunk_size |-> 0,
     chunk_overlap |-> 0, i |-> 0, current_chunk |-> <<>>, current_tokens |-> 0,
     chunk_index |-> 0, start_char |-> 0, chunks |-> <<>>,
     first |-> 0, firsts |-> <<>>]

(***************************************************************************)
(* Start of the process: RAGServer() on a fresh data directory.            *)
(***************************************************************************)
Init ==
    /\ FAISS_AVAILABLE \in BOOLEAN
    /\ index = NewStore.index
    /\ metadata = NewStore.metadata
    /\ chunk_counter = NewStore.chunk_counter
    /\ index_file = NoFile
    /\ metadata_file = NoFile
    /\ documents_file = NoFile
    /\ next_id = 0
    /\ tasks = [d \in 1..MaxDocs |-> NoTask]
    /\ deleted = {}
    /\ last = Last("init", 0, 0)
    /\ cp = CpIdle
    /\ twin = NoTwin
    /\ pdf = PdfIdle

(***************************************************************************)
(* Request handlers of rag_server.py.                                      *)
(***************************************************************************)
\* the record is created with the status the task will set
NewDocument_processing(doc_id) ==
    [id |-> doc_id, content |-> <<>>, chunkCount |-> 0, processingStatus |-> "processing"]

NewDocument(doc_id) ==
    [id |-> doc_id, content |-> <<>>, chunkCount |-> 0, processingStatus |-> "pending"]

embeddingModel == "all-MiniLM-L6-v2"

\* GET /status: doc.metadata is a dict, so the attribute access
\* doc.metadata.chunkCount raises AttributeError for the first record of
\* the registry and the request ends as a 500; the sum over an empty
\* registry is 0
get_status ==
    LET documents == load_documents(documents_file)
    IN  /\ last' = IF documents = <<>>
                   THEN [Last("status", 200, 0) EXCEPT
                            !.args = <<Len(documents), 0>>,
                            !.status = embeddingModel]
                   ELSE Last("status", 500, 0)
        /\ UNCHANGED <<FAISS_AVAILABLE, storeVars, documents_file, next_id, tasks,
                       deleted, cp, twin, pdf>>

\* the record is created and saved, and the task scheduled, before the
\* file type is looked at
upload_document_validates_late(file_ext) ==
    /\ next_id < MaxDocs
    /\ LET doc_id == next_id + 1
       IN  /\ documents_file' = save_document(documents_file, NewDocument(doc_id))
           /\ next_id' = doc_id
           /\ tasks' = [tasks EXCEPT ![doc_id] = [NoTask EXCEPT !.pc = "scheduled"]]
           /\ last' = IF file_ext \notin allowed_types
                      THEN [Last("upload", 500, 0) EXCEPT !.args = <<file_ext>>]
                      ELSE [Last("upload", 200, doc_id) EXCEPT
                               !.status = "processing", !.args = <<file_ext>>]
    /\ UNCHANGED <<FAISS_AVAILABLE, storeVars, deleted, cp, twin, pdf>>

\* POST /upload: the HTTPException(400) of the type check is raised inside
\* the try block and re-raised by "except Exception" as a 500
upload_document(file_ext) ==
    /\ next_id < MaxDocs
    /\ IF file_ext \notin allowed_types
       THEN /\ last' = [Last("upload", 500, 0) EXCEPT !.args = <<file_ext>>]
            /\ UNCHANGED <<documents_file, next_id, tasks>>
       ELSE LET doc_id == next_id + 1
            IN  /\ documents_file' = save_document(documents_file, NewDocument(doc_id))
                /\ next_id' = doc_id
                /\ tasks' = [tasks EXCEPT ![doc_id] = [NoTask EXCEPT !.pc = "scheduled"]]
                /\ last' = [Last("upload", 200, doc_id) EXCEPT
                                !.status = "processing", !.args = <<file_ext>>]
    /\ UNCHANGED <<FAISS_AVAILABLE, storeVars, deleted, cp, twin, pdf>>

\* POST /search
search_documents(query, maxResults, similarityThreshold) ==
    LET max_results == OrDefault(maxResults, DefaultMaxResults)
        similarity_threshold == OrDefault(similarityThreshold, DefaultSimilarityThreshold)
        results == vs_search(FAISS_AVAILABLE, store, query, max_results,
                             similarity_threshold)
    IN  /\ last' = [Last("search", 200, 0) EXCEPT
                        !.chunks = results.chunks,
                        !.scores = results.scores,
                        !.args = <<query, max_results, similarity_threshold,
                                   maxResults, similarityThreshold>>]
        /\ UNCHANGED <<FAISS_AVAILABLE, storeVars, documents_file, next_id, tasks,
                       deleted, cp, twin, pdf>>

\* POST /search when generate_embeddings([query]) raises: lines 198-200
search_documents_fails ==
    /\ last' = Last("search", 500, 0)
    /\ UNCHANGED <<FAISS_AVAILABLE, storeVars, documents_file, next_id, tasks,
                   deleted, cp, twin, pdf>>

\* DELETE /documents/{document_id}
delete_document(document_id) ==
    LET r == vs_delete_document(FAISS_AVAILABLE, store, disk, document_id)
        documents == load_documents(documents_file)
        keep == SelectIdx(documents, LAMBDA d : d.id # document_id)
    IN  /\ SetStore(r)
        /\ documents_file' = save_documents([i \in 1..Len(keep) |-> documents[keep[i]]])
        /\ deleted' = deleted \cup {document_id}
        /\ last' = Last("delete", 200, document_id)
        /\ UNCHANGED <<FAISS_AVAILABLE, next_id, tasks, cp, twin, pdf>>

\* DELETE /clear
clear_all_documents ==
    LET r == vs_clear_all(FAISS_AVAILABLE, store, disk)
    IN  /\ SetStore(r)
        /\ documents_file' = save_documents(<<>>)
        /\ last' = Last("clear", 200, 0)
        /\ UNCHANGED <<FAISS_AVAILABLE, next_id, tasks, deleted, cp, twin, pdf>>

(***************************************************************************)
(* RAGServer.process_document_async, one action per stretch between two    *)
(* awaits that give the event loop to other requests and tasks.            *)
(***************************************************************************)
\* the chunks create_chunks returns for a text of n chunks: ids chunk_0..
ChunksOf(contents) ==
    [i \in 1..Len(contents) |->
        [id |-> i - 1, content |-> contents[i], chunkIndex |-> i - 1]]

\* the chunk contents an uploaded file can have: the first n chunks of a
\* text whose chunks run through Texts
FileContents ==
    {[i \in 1..n |-> ((i - 1) % Cardinality(Texts)) + 1] : n \in 0..MaxChunks}

\* line 247, up to "await file.read()"
task_start(doc_id) ==
    /\ tasks[doc_id].pc = "scheduled"
    /\ documents_file' = update_document_status(documents_file, doc_id, "processing")
    /\ tasks' = [tasks EXCEPT ![doc_id].pc = "reading"]
    /\ last' = Last("task", 0, 0)
    /\ UNCHANGED <<FAISS_AVAILABLE, storeVars, next_id, deleted, cp, twin, pdf>>

\* the except clause only logs the error
task_process_fails_logs_only(doc_id) ==
    /\ tasks[doc_id].pc = "reading"
    /\ tasks' = [tasks EXCEPT ![doc_id].pc = "done", ![doc_id].failed = TRUE]
    /\ last' = Last("task", 0, 0)
    /\ UNCHANGED <<FAISS_AVAILABLE, storeVars, documents_file, next_id, deleted, cp, twin, pdf>>

\* file.read() or process_file raises: the except clause, line 282
task_process_fails(doc_id) ==
    /\ tasks[doc_id].pc = "reading"
    /\ documents_file' = update_document_status(documents_file, doc_id, "failed")
    /\ tasks' = [tasks EXCEPT ![doc_id].pc = "done", ![doc_id].failed = TRUE]
    /\ last' = Last("task", 0, 0)
    /\ UNCHANGED <<FAISS_AVAILABLE, storeVars, next_id, deleted, cp, twin, pdf>>

\* lines 250-276, up to "await self.generate_embeddings" in add_document;
\* add_document returns at once for an empty chunk list
task_process(doc_id, contents) ==
    /\ tasks[doc_id].pc = "reading"
    /\ documents_file' = write_back(documents_file, doc_id, contents, ChunksOf(contents))
    /\ tasks' = [tasks EXCEPT ![doc_id].pc = IF contents = <<>> THEN "done" ELSE "embedding",
                              ![doc_id].chunks = ChunksOf(contents)]
    /\ last' = Last("task", 0, 0)
    /\ UNCHANGED <<FAISS_AVAILABLE, storeVars, next_id, deleted, cp, twin, pdf>>

\* generate_embeddings raises inside add_document: line 145, then line 282
task_add_fails(doc_id) ==
    /\ tasks[doc_id].pc = "embedding"
    /\ documents_file' = update_document_status(documents_file, doc_id, "failed")
    /\ tasks' = [tasks EXCEPT ![doc_id].pc = "done", ![doc_id].failed = TRUE]
    /\ last' = Last("task", 0, 0)
    /\ UNCHANGED <<FAISS_AVAILABLE, storeVars, next_id, deleted, cp, twin, pdf>>

\* the rest of add_document, lines 114-141, and line 278
task_add(doc_id) ==
    /\ tasks[doc_id].pc = "embedding"
    /\ SetStore(vs_add_document(FAISS_AVAILABLE, store, disk, doc_id, tasks[doc_id].chunks))
    /\ tasks' = [tasks EXCEPT ![doc_id].pc = "done"]
    /\ last' = Last("task", 0, 0)
    /\ UNCHANGED <<FAISS_AVAILABLE, documents_file, next_id, deleted, cp, twin, pdf>>

Exts == {"txt", "csv"}
Optional(S) == {<<>>} \cup {<<v>> : v \in S}
Queries == {1}
RequestMaxResults == Optional({1})
RequestThresholds == Optional({0, 50})

Next ==
    \/ get_status
    \/ \E e \in Exts : upload_document(e)
    \/ \E q \in Queries, m \in RequestMaxResults, t \in RequestThresholds :
          search_documents(q, m, t)
    \/ search_documents_fails
    \/ \E d \in 0..next_id : delete_document(d)
    \/ clear_all_documents
    \/ \E d \in 1..next_id : task_start(d)
    \/ \E d \in 1..next_id : task_process_fails(d)
    \/ \E d \in 1..next_id, c \in FileContents : task_process(d, c)
    \/ \E d \in 1..next_id : task_add_fails(d)
    \/ \E d \in 1..next_id : task_add(d)

Spec == Init /\ [][Next]_vars

(***************************************************************************)
(* The same server with the scheduling of the event loop: a background     *)
(* task that was added is started after the response, and a coroutine      *)
(* whose await has finished is resumed.                                    *)
(***************************************************************************)
TaskStep(doc_id) ==
    \/ task_start(doc_id)
    \/ task_process_fails(doc_id)
    \/ \E c \in FileContents : task_process(doc_id, c)
    \/ task_add_fails(doc_id)
    \/ task_add(doc_id)

SpecLive == Init /\ [][Next]_vars /\ \A d \in 1..MaxDocs : WF_vars(TaskStep(d))

(***************************************************************************)
(* The server with the failures of its collaborators: calls that raise     *)
(* inside the vector store and file operations that fail.  The requests    *)
(* that only read (GET /status, POST /search) are left out.                *)
(***************************************************************************)
\* the record is removed from the registry before the vector store is called
delete_document_fails_record_first(document_id) ==
    LET documents == load_documents(documents_file)
        keep == SelectIdx(documents, LAMBDA d : d.id # document_id)
        survivors == SelectIdx(metadata, LAMBDA r : r.document_id # document_id)
    IN  /\ FAISS_AVAILABLE
        /\ Len(survivors) < Len(metadata)
        /\ metadata' = [i \in 1..Len(survivors) |-> metadata[survivors[i]]]
        /\ index' \in {index, <<>>}
        /\ documents_file' = save_documents([i \in 1..Len(keep) |-> documents[keep[i]]])
        /\ last' = Last("delete", 500, document_id)
        /\ UNCHANGED <<FAISS_AVAILABLE, chunk_counter, index_file, metadata_file,
                       next_id, tasks, deleted, cp, twin, pdf>>

\* DELETE /documents/{document_id} when rebuild_index raises: the records
\* are out of self.metadata (lines 230-232), self.index is the old index
\* or the fresh one of line 273, and the handler's except clause answers
\* 500 before it reaches the registry (lines 222-224)
delete_document_fails(document_id) ==
    LET survivors == SelectIdx(metadata, LAMBDA r : r.document_id # document_id)
    IN  /\ FAISS_AVAILABLE
        /\ Len(survivors) < Len(metadata)
        /\ metadata' = [i \in 1..Len(survivors) |-> metadata[survivors[i]]]
        /\ index' \in {index, <<>>}
        /\ last' = Last("delete", 500, document_id)
        /\ UNCHANGED <<FAISS_AVAILABLE, chunk_counter, index_file, metadata_file,
                       documents_file, next_id, tasks, deleted, cp, twin, pdf>>

\* load_documents when open or json.load raises: lines 292-294
load_documents_fails(file) == <<>>

\* POST /upload when the load_documents of save_document fails: the new
\* record is appended to the empty list and the list is saved
upload_document_load_fails(file_ext) ==
    /\ next_id < MaxDocs
    /\ file_ext \in allowed_types
    /\ documents_file.exists
    /\ LET doc_id == next_id + 1
       IN  /\ documents_file' = save_documents(Append(load_documents_fails(documents_file),
                                                      NewDocument(doc_id)))
           /\ next_id' = doc_id
           /\ tasks' = [tasks EXCEPT ![doc_id] = [NoTask EXCEPT !.pc = "scheduled"]]
           /\ last' = [Last("upload", 200, doc_id) EXCEPT
                           !.status = "processing", !.args = <<file_ext>>]
    /\ UNCHANGED <<FAISS_AVAILABLE, storeVars, deleted, cp, twin, pdf>>

\* line 247 when the load_documents of update_document_status fails: no
\* record is found in the empty list and the empty list is saved
task_start_load_fails(doc_id) ==
    /\ tasks[doc_id].pc = "scheduled"
    /\ documents_file.exists
    /\ documents_file' = save_documents(load_documents_fails(documents_file))
    /\ tasks' = [tasks EXCEPT ![doc_id].pc = "reading"]
    /\ last' = Last("task", 0, 0)
    /\ UNCHANGED <<FAISS_AVAILABLE, storeVars, next_id, deleted, cp, twin, pdf>>

\* save_index when a write raises: the except clause logs and returns
\* (lines 97-98); faiss.write_index failed and nothing is written, or the
\* index is written and the metadata write failed
vs_save_index_fails(faiss, s, files) ==
    {files,
     [index_file |-> IF faiss THEN File(s.index) ELSE files.index_file,
      metadata_file |-> files.metadata_file]}

\* the rest of add_document when its save_index fails: add_document
\* returns normally and the task ends at line 278
task_add_save_fails(doc_id) ==
    /\ tasks[doc_id].pc = "embedding"
    /\ LET r == vs_add_document(FAISS_AVAILABLE, store, disk, doc_id,
                                tasks[doc_id].chunks)
       IN  \E d \in vs_save_index_fails(FAISS_AVAILABLE, r.store, disk) :
              SetStore([store |-> r.store, disk |-> d])
    /\ tasks' = [tasks EXCEPT ![doc_id].pc = "done"]
    /\ last' = [Last("task", 0, doc_id) EXCEPT !.status = "save_index failed"]
    /\ UNCHANGED <<FAISS_AVAILABLE, documents_file, next_id, deleted, cp, twin, pdf>>

\* the handlers and task steps that write: Next without GET /status and
\* POST /search
NextWrites ==
    \/ \E e \in Exts : upload_document(e)
    \/ \E d \in 0..next_id : delete_document(d)
    \/ clear_all_documents
    \/ \E d \in 1..next_id : task_start(d)
    \/ \E d \in 1..next_id : task_process_fails(d)
    \/ \E d \in 1..next_id, c \in FileContents : task_process(d, c)
    \/ \E d \in 1..next_id : task_add_fails(d)
    \/ \E d \in 1..next_id : task_add(d)

NextFault ==
    \/ NextWrites
    \/ \E d \in 1..next_id : task_add_save_fails(d)
    \/ \E d \in 1..next_id : delete_document_fails(d)
    \/ \E e \in Exts : upload_document_load_fails(e)
    \/ \E d \in 1..next_id : task_start_load_fails(d)

SpecFault == Init /\ [][NextFault]_vars

(***************************************************************************)
(* Uploads and their background tasks alone: no delete, no clear, and no   *)
(* step of a task raises.                                                  *)
(***************************************************************************)
NextUploads ==
    \/ \E e \in Exts : upload_document(e)
    \/ \E d \in 1..next_id : task_start(d)
    \/ \E d \in 1..next_id, c \in FileContents : task_process(d, c)
    \/ \E d \in 1..next_id : task_add(d)

SpecUploads == Init /\ [][NextUploads]_vars

(***************************************************************************)
(* FAISSVectorStore driven through its own interface: the calls the        *)
(* orchestrator makes, with any arguments, and the construction of a new   *)
(* store over the same data directory (a restart of the process).          *)
(***************************************************************************)
\* the chunk contents of an added document: n chunks running through Texts
\* from any first text
ChunkLists ==
    {[i \in 1..n |-> ((t + i - 2) % Cardinality(Texts)) + 1] :
        t \in Texts, n \in 0..MaxChunks}

store_add_document(contents) ==
    /\ next_id < MaxAdds
    /\ SetStore(vs_add_document(FAISS_AVAILABLE, store, disk, next_id + 1,
                                ChunksOf(contents)))
    /\ next_id' = next_id + 1
    /\ last' = [Last("add_document", 200, next_id + 1) EXCEPT !.args = contents]
    /\ UNCHANGED <<FAISS_AVAILABLE, documents_file, tasks, deleted, cp, twin, pdf>>

\* generate_embeddings raises: add_document re-raises before any change
store_add_document_fails ==
    /\ next_id < MaxAdds
    /\ last' = Last("add_document", 500, next_id + 1)
    /\ UNCHANGED <<FAISS_AVAILABLE, storeVars, documents_file, next_id, tasks,
                   deleted, cp, twin, pdf>>

store_search(query, max_results, similarity_threshold) ==
    LET results == vs_search(FAISS_AVAILABLE, store, query, max_results,
                             similarity_threshold)
    IN  /\ last' = [Last("search", 200, 0) EXCEPT
                        !.chunks = results.chunks,
                        !.scores = results.scores,
                        !.args = <<query, max_results, similarity_threshold>>]
        /\ UNCHANGED <<FAISS_AVAILABLE, storeVars, documents_file, next_id, tasks,
                       deleted, cp, twin, pdf>>

store_delete_document(doc_id) ==
    /\ SetStore(vs_delete_document(FAISS_AVAILABLE, store, disk, doc_id))
    /\ last' = Last("delete", 200, doc_id)
    /\ UNCHANGED <<FAISS_AVAILABLE, documents_file, next_id, tasks, deleted, cp, twin, pdf>>

store_clear_all ==
    /\ SetStore(vs_clear_all(FAISS_AVAILABLE, store, disk))
    /\ last' = Last("clear", 200, 0)
    /\ UNCHANGED <<FAISS_AVAILABLE, documents_file, next_id, tasks, deleted, cp, twin, pdf>>

\* FAISSVectorStore(data_dir, embedding_model) in a new process
store_reload ==
    /\ LET s == vs_load_index(FAISS_AVAILABLE, disk)
       IN  /\ index' = s.index
           /\ metadata' = s.metadata
           /\ chunk_counter' = s.chunk_counter
    /\ last' = Last("reload", 200, 0)
    /\ UNCHANGED <<FAISS_AVAILABLE, index_file, metadata_file, documents_file,
                   next_id, tasks, deleted, cp, twin, pdf>>

StoreQueries == {1, 2, 4}
StoreMaxResults == {1, 2}
StoreThresholds == {0, 70, 100}

NextStore ==
    \/ \E c \in ChunkLists : store_add_document(c)
    \/ store_add_document_fails
    \/ \E q \in StoreQueries, m \in StoreMaxResults, t \in StoreThresholds :
          store_search(q, m, t)
    \/ \E d \in 0..next_id : store_delete_document(d)
    \/ store_clear_all
    \/ store_reload

SpecStore == Init /\ [][NextStore]_vars

(***************************************************************************)
(* The store with a process that dies inside save_index, after             *)
(* faiss.write_index (line 90) and before the metadata file is opened      *)
(* (line 92), and is started again on the same data directory.             *)
(***************************************************************************)
\* the metadata file is written first and the process dies before the index
vs_save_index_crashed_metadata_first(faiss, s, files) ==
    [index_file |-> files.index_file, metadata_file |-> File(s.metadata)]

\* save_index up to line 90
vs_save_index_crashed(faiss, s, files) ==
    [index_file |-> IF faiss THEN File(s.index) ELSE files.index_file,
     metadata_file |-> files.metadata_file]

\* the files after the crash and the store the new process loads from them
Restarted(d, op, id) ==
    /\ index_file' = d.index_file
    /\ metadata_file' = d.metadata_file
    /\ LET s == vs_load_index(FAISS_AVAILABLE, d)
       IN  /\ index' = s.index
           /\ metadata' = s.metadata
           /\ chunk_counter' = s.chunk_counter
    /\ last' = [Last("crash", 0, id) EXCEPT !.status = op]

\* add_document dies in its save_index (line 139)
crash_in_add_document(contents) ==
    /\ next_id < MaxAdds
    /\ contents # <<>>
    /\ LET r == vs_add_document(FAISS_AVAILABLE, store, disk, next_id + 1,
                                ChunksOf(contents))
       IN  Restarted(vs_save_index_crashed(FAISS_AVAILABLE, r.store, disk),
                     "add_document", next_id + 1)
    /\ next_id' = next_id + 1
    /\ UNCHANGED <<FAISS_AVAILABLE, documents_file, tasks, deleted, cp, twin, pdf>>

\* delete_document dies in the save_index of rebuild_index (line 293)
crash_in_delete_document(doc_id) ==
    /\ FAISS_AVAILABLE
    /\ \E i \in 1..Len(metadata) : metadata[i].document_id = doc_id
    /\ LET r == vs_delete_document(FAISS_AVAILABLE, store, disk, doc_id)
       IN  Restarted(vs_save_index_crashed(FAISS_AVAILABLE, r.store, disk),
                     "delete_document", doc_id)
    /\ UNCHANGED <<FAISS_AVAILABLE, documents_file, next_id, tasks, deleted, cp, twin, pdf>>

\* clear_all dies in its save_index (line 258)
crash_in_clear_all ==
    /\ LET r == vs_clear_all(FAISS_AVAILABLE, store, disk)
       IN  Restarted(vs_save_index_crashed(FAISS_AVAILABLE, r.store, disk),
                     "clear_all", 0)
    /\ UNCHANGED <<FAISS_AVAILABLE, documents_file, next_id, tasks, deleted, cp, twin, pdf>>

NextCrash ==
    \/ NextStore
    \/ \E c \in ChunkLists : crash_in_add_document(c)
    \/ \E d \in 1..next_id : crash_in_delete_document(d)
    \/ crash_in_clear_all

SpecCrash == Init /\ [][NextCrash]_vars

(***************************************************************************)
(* The two builds of FAISSVectorStore side by side: the store of the       *)
(* variables index, metadata, ... runs with FAISS_AVAILABLE, twin is the   *)
(* store of a process in which "import faiss" failed.  Every call is made  *)
(* on both with the same arguments.                                        *)
(***************************************************************************)
SetTwin(r, results) ==
    twin' = [store |-> r.store, disk |-> r.disk,
             chunks |-> results.chunks, scores |-> results.scores]

NoResults == [chunks |-> <<>>, scores |-> <<>>]

backends_add_document(contents) ==
    /\ next_id < MaxAdds
    /\ SetStore(vs_add_document(TRUE, store, disk, next_id + 1, ChunksOf(contents)))
    /\ SetTwin(vs_add_document(FALSE, twin.store, twin.disk, next_id + 1,
                               ChunksOf(contents)), NoResults)
    /\ next_id' = next_id + 1
    /\ last' = [Last("add_document", 200, next_id + 1) EXCEPT !.args = contents]
    /\ UNCHANGED <<FAISS_AVAILABLE, documents_file, tasks, deleted, cp, pdf>>

backends_search(query, max_results, similarity_threshold) ==
    LET results == vs_search(TRUE, store, query, max_results, similarity_threshold)
    IN  /\ last' = [Last("search", 200, 0) EXCEPT
                        !.chunks = results.chunks,
                        !.scores = results.scores,
                        !.args = <<query, max_results, similarity_threshold>>]
        /\ SetTwin(twin, vs_search(FALSE, twin.store, query, max_results,
                                   similarity_threshold))
        /\ UNCHANGED <<FAISS_AVAILABLE, storeVars, documents_file, next_id, tasks,
                       deleted, cp, pdf>>

backends_delete_document(doc_id) ==
    /\ SetStore(vs_delete_document(TRUE, store, disk, doc_id))
    /\ SetTwin(vs_delete_document(FALSE, twin.store, twin.disk, doc_id), NoResults)
    /\ deleted' = deleted \cup {doc_id}
    /\ last' = Last("delete", 200, doc_id)
    /\ UNCHANGED <<FAISS_AVAILABLE, documents_file, next_id, tasks, cp, pdf>>

backends_clear_all ==
    /\ SetStore(vs_clear_all(TRUE, store, disk))
    /\ SetTwin(vs_clear_all(FALSE, twin.store, twin.disk), NoResults)
    /\ last' = Last("clear", 200, 0)
    /\ UNCHANGED <<FAISS_AVAILABLE, documents_file, next_id, tasks, deleted, cp, pdf>>

InitBackends ==
    /\ FAISS_AVAILABLE = TRUE
    /\ index = NewStore.index
    /\ metadata = NewStore.metadata
    /\ chunk_counter = NewStore.chunk_counter
    /\ index_file = NoFile
    /\ metadata_file = NoFile
    /\ documents_file = NoFile
    /\ next_id = 0
    /\ tasks = [d \in 1..MaxDocs |-> NoTask]
    /\ deleted = {}
    /\ last = Last("init", 0, 0)
    /\ cp = CpIdle
    /\ twin = NoTwin
    /\ pdf = PdfIdle

NextBackends ==
    \/ \E c \in ChunkLists : backends_add_document(c)
    \/ \E q \in StoreQueries, m \in StoreMaxResults, t \in StoreThresholds :
          backends_search(q, m, t)
    \/ \E d \in 0..next_id : backends_delete_document(d)
    \/ backends_clear_all

SpecBackends == InitBackends /\ [][NextBackends]_vars

(***************************************************************************)
(* DocumentProcessor.create_chunks.  A string is the sequence of its       *)
(* words; a word is a positive integer that is both its number of tokens   *)
(* (len(self.tokenizer.encode(word))) and its number of characters.  The   *)
(* token count of a string is the sum over its words.  A text is the       *)
(* sequence of the segments between runs of ".", "!" and "?".  The fields  *)
(* first and firsts of cp are history: the number of the first sentence    *)
(* added to the running chunk and to each finalized chunk.                 *)
(***************************************************************************)
Words == {1, 2}

SeqsUpTo(S, n) == UNION {[1..k -> S] : k \in 0..n}

Sum(ws) ==
    LET F[i \in 0..Len(ws)] == IF i = 0 THEN 0 ELSE F[i-1] + ws[i]
    IN  F[Len(ws)]

\* len(self.tokenizer.encode(text))
Tokens(ws) == Sum(ws)

\* len(text) of the words joined by single spaces
CharLen(ws) == IF ws = <<>> THEN 0 ELSE Sum(ws) + Len(ws) - 1

split_into_sentences(text) ==
    LET keep == SelectIdx(text, LAMBDA seg : seg # <<>>)
    IN  [i \in 1..Len(keep) |-> text[keep[i]]]

\* the loop goes on (continue) past a word that does not fit
get_overlap_text_skipping(text, max_tokens) ==
    IF text = <<>> \/ max_tokens <= 0 THEN <<>>
    ELSE LET n == Len(text)
             F[k \in 0..n] ==
                 IF k = 0 THEN [words |-> <<>>, count |-> 0]
                 ELSE LET p == F[k-1]
                          w == text[n - k + 1]
                      IN  IF p.count + Tokens(<<w>>) > max_tokens
                          THEN p
                          ELSE [words |-> <<w>> \o p.words,
                                count |-> p.count + Tokens(<<w>>)]
         IN  F[n].words

\* words from the end of text until max_tokens would be exceeded
get_overlap_text(text, max_tokens) ==
    IF text = <<>> \/ max_tokens <= 0 THEN <<>>
    ELSE LET n == Len(text)
             \* F[k]: overlap_words and token_count after k words from the
             \* end, "stop" once the loop has left through break
             F[k \in 0..n] ==
                 IF k = 0 THEN [words |-> <<>>, count |-> 0, stop |-> FALSE]
                 ELSE LET p == F[k-1]
                          w == text[n - k + 1]
                      IN  IF p.stop \/ p.count + Tokens(<<w>>) > max_tokens
                          THEN [p EXCEPT !.stop = TRUE]
                          ELSE [words |-> <<w>> \o p.words,
                                count |-> p.count + Tokens(<<w>>),
                                stop |-> FALSE]
         IN  F[n].words

Chunk(chunk_index, chunk_content, start_char, current_tokens) ==
    [id |-> chunk_index, content |-> chunk_content, chunkIndex |-> chunk_index,
     startChar |-> start_char, endChar |-> start_char + CharLen(chunk_content),
     tokenCount |-> current_tokens]

\* create_chunks(text) up to the loop, lines 191-199
CpStart(text, chunk_size, chunk_overlap) ==
    [CpIdle EXCEPT !.pc = "loop", !.text = text,
                   !.sentences = split_into_sentences(text),
                   !.chunk_size = chunk_size, !.chunk_overlap = chunk_overlap,
                   !.i = 1]

\* the finalize branch without "chunk_index += 1"
chunk_finalize_same_index ==
    /\ cp.pc = "loop"
    /\ cp.i <= Len(cp.sentences)
    /\ LET sentence == cp.sentences[cp.i]
           sentence_tokens == Tokens(sentence)
           chunk_content == cp.current_chunk
           overlap_text == get_overlap_text(cp.current_chunk, cp.chunk_overlap)
           next_chunk == overlap_text \o sentence
       IN  /\ cp.current_tokens + sentence_tokens > cp.chunk_size
           /\ cp.current_chunk # <<>>
           /\ cp' = [cp EXCEPT
                  !.chunks = Append(@, Chunk(cp.chunk_index, chunk_content,
                                             cp.start_char, cp.current_tokens)),
                  !.current_chunk = next_chunk,
                  !.current_tokens = Tokens(next_chunk),
                  !.start_char = @ + CharLen(chunk_content) - CharLen(overlap_text),
                  !.firsts = Append(@, cp.first),
                  !.first = cp.i,
                  !.i = @ + 1]
    /\ UNCHANGED serverVars

\* one iteration of the loop, the branch of line 205: finalize and reseed
chunk_finalize ==
    /\ cp.pc = "loop"
    /\ cp.i <= Len(cp.sentences)
    /\ LET sentence == cp.sentences[cp.i]
           sentence_tokens == Tokens(sentence)
           chunk_content == cp.current_chunk
           overlap_text == get_overlap_text(cp.current_chunk, cp.chunk_overlap)
           next_chunk == overlap_text \o sentence
       IN  /\ cp.current_tokens + sentence_tokens > cp.chunk_size
           /\ cp.current_chunk # <<>>
           /\ cp' = [cp EXCEPT
                  !.chunks = Append(@, Chunk(cp.chunk_index, chunk_content,
                                             cp.start_char, cp.current_tokens)),
                  !.chunk_index = @ + 1,
                  !.current_chunk = next_chunk,
                  !.current_tokens = Tokens(next_chunk),
                  !.start_char = @ + CharLen(chunk_content) - CharLen(overlap_text),
                  !.firsts = Append(@, cp.first),
                  !.first = cp.i,
                  !.i = @ + 1]
    /\ UNCHANGED serverVars

\* one iteration of the loop, the else branch of line 226
chunk_append ==
    /\ cp.pc = "loop"
    /\ cp.i <= Len(cp.sentences)
    /\ LET sentence == cp.sentences[cp.i]
           sentence_tokens == Tokens(sentence)
       IN  /\ ~(cp.current_tokens + sentence_tokens > cp.chunk_size
                /\ cp.current_chunk # <<>>)
           /\ cp' = [cp EXCEPT
                  !.current_chunk = @ \o sentence,
                  !.current_tokens = @ + sentence_tokens,
                  !.first = IF cp.current_chunk = <<>> THEN cp.i ELSE @,
                  !.i = @ + 1]
    /\ UNCHANGED serverVars

\* the loop ends without the flush of the running chunk
chunk_flush_without_final ==
    /\ cp.pc = "loop"
    /\ cp.i > Len(cp.sentences)
    /\ cp' = [cp EXCEPT !.pc = "done"]
    /\ UNCHANGED serverVars

\* after the loop, lines 231-245
chunk_flush ==
    /\ cp.pc = "loop"
    /\ cp.i > Len(cp.sentences)
    /\ cp' = IF cp.current_chunk # <<>>
             THEN [cp EXCEPT
                      !.chunks = Append(@, Chunk(cp.chunk_index, cp.current_chunk,
                                                 cp.start_char, cp.current_tokens)),
                      !.firsts = Append(@, cp.first),
                      !.pc = "done"]
             ELSE [cp EXCEPT !.pc = "done"]
    /\ UNCHANGED serverVars

Segments == SeqsUpTo(Words, MaxWords)
RawTexts == SeqsUpTo(Segments, MaxSentences)
ChunkSizes == {2, 3, 4}
ChunkOverlaps == {0, 1, 2}

InitChunk ==
    /\ FAISS_AVAILABLE = FALSE
    /\ index = NewStore.index
    /\ metadata = NewStore.metadata
    /\ chunk_counter = NewStore.chunk_counter
    /\ index_file = NoFile
    /\ metadata_file = NoFile
    /\ documents_file = NoFile
    /\ next_id = 0
    /\ tasks = [d \in 1..MaxDocs |-> NoTask]
    /\ deleted = {}
    /\ last = Last("init", 0, 0)
    /\ \E text \in RawTexts, chunk_size \in ChunkSizes, chunk_overlap \in ChunkOverlaps :
          cp = CpStart(text, chunk_size, chunk_overlap)
    /\ twin = NoTwin
    /\ pdf = PdfIdle

NextChunk ==
    \/ chunk_finalize
    \/ chunk_append
    \/ chunk_flush

SpecChunk == InitChunk /\ [][NextChunk]_vars

(***************************************************************************)
(* DocumentProcessor.extract_pdf_text on a file PdfReader can open.  A     *)
(* page is what page.extract_text() does: it raises, or it returns a text  *)
(* (0 is the empty text or None).  The extracted text is the sequence of   *)
(* its pieces: the marker "--- Page n ---" and the text of a page.         *)
(***************************************************************************)
PageTexts == {1, 2}

Pages == {p \in [raises : BOOLEAN, text : {0} \cup PageTexts] : p.raises => p.text = 0}

Marker(n) == [kind |-> "marker", v |-> n]
PageText(t) == [kind |-> "text", v |-> t]

\* the exception of a page goes to the outer except clause, which re-raises
pdf_page_raises_aborts ==
    /\ pdf.pc = "loop"
    /\ pdf.page_num < Len(pdf.pages)
    /\ pdf.pages[pdf.page_num + 1].raises
    /\ pdf' = [pdf EXCEPT !.pc = "failed"]
    /\ UNCHANGED <<FAISS_AVAILABLE, storeVars, documents_file, next_id, tasks,
                   deleted, last, cp, twin>>

\* one iteration: page.extract_text() raises, lines 74-76
pdf_page_raises ==
    /\ pdf.pc = "loop"
    /\ pdf.page_num < Len(pdf.pages)
    /\ pdf.pages[pdf.page_num + 1].raises
    /\ pdf' = [pdf EXCEPT !.page_num = @ + 1]
    /\ UNCHANGED <<FAISS_AVAILABLE, storeVars, documents_file, next_id, tasks,
                   deleted, last, cp, twin>>

\* one iteration: page.extract_text() returns, lines 70-73
pdf_page_extracts ==
    /\ pdf.pc = "loop"
    /\ pdf.page_num < Len(pdf.pages)
    /\ ~pdf.pages[pdf.page_num + 1].raises
    /\ LET page_text == pdf.pages[pdf.page_num + 1].text
       IN  pdf' = [pdf EXCEPT
                      !.text = IF page_text # 0
                               THEN @ \o <<Marker(pdf.page_num + 1), PageText(page_text)>>
                               ELSE @,
                      !.page_num = @ + 1]
    /\ UNCHANGED <<FAISS_AVAILABLE, storeVars, documents_file, next_id, tasks,
                   deleted, last, cp, twin>>

\* return text, line 78
pdf_return ==
    /\ pdf.pc = "loop"
    /\ pdf.page_num = Len(pdf.pages)
    /\ pdf' = [pdf EXCEPT !.pc = "done"]
    /\ UNCHANGED <<FAISS_AVAILABLE, storeVars, documents_file, next_id, tasks,
                   deleted, last, cp, twin>>

InitPdf ==
    /\ FAISS_AVAILABLE = FALSE
    /\ index = NewStore.index
    /\ metadata = NewStore.metadata
    /\ chunk_counter = NewStore.chunk_counter
    /\ index_file = NoFile
    /\ metadata_file = NoFile
    /\ documents_file = NoFile
    /\ next_id = 0
    /\ tasks = [d \in 1..MaxDocs |-> NoTask]
    /\ deleted = {}
    /\ last = Last("init", 0, 0)
    /\ cp = CpIdle
    /\ twin = NoTwin
    /\ \E pages \in SeqsUpTo(Pages, MaxPages) :
          pdf = [pc |-> "loop", pages |-> pages, page_num |-> 0, text |-> <<>>]

NextPdf ==
    \/ pdf_page_raises
    \/ pdf_page_extracts
    \/ pdf_return

SpecPdf == InitPdf /\ [][NextPdf]_vars

(***************************************************************************)
(* Properties.                                                             *)
(***************************************************************************)
HasRecord(file, d) == \E i \in 1..Len(load_documents(file)) : load_documents(file)[i].id = d
RecordOf(file, d) ==
    load_documents(file)[CHOOSE i \in 1..Len(load_documents(file)) :
                            load_documents(file)[i].id = d]
StoredChunksOf(md, d) == {i \in 1..Len(md) : md[i].document_id = d}
Returned(d) == {i \in 1..Len(last.chunks) : last.chunks[i].documentId = d}

\* C1: once DELETE /documents/{id} has returned, no search returns a chunk
\* whose documentId is id, whatever the state of the document's background
\* task was when the delete ran.
C1_DeletedNeverReturned ==
    last.op = "search" => \A d \in deleted : Returned(d) = {}

\* C3: the processingStatus of a document record is one of the four statuses
\* and every change of it is a step forward along
\* pending -> processing -> (completed | failed); a terminal status stays.
Forward(a, b) ==
    \/ a = b
    \/ <<a, b>> \in {<<"pending", "processing">>, <<"processing", "completed">>,
                     <<"processing", "failed">>}

C3_StatusOnlyForward ==
    [][\A d \in 1..MaxDocs :
          /\ HasRecord(documents_file', d) =>
                RecordOf(documents_file', d).processingStatus \in Statuses
          /\ (HasRecord(documents_file, d) /\ HasRecord(documents_file', d)) =>
                Forward(RecordOf(documents_file, d).processingStatus,
                        RecordOf(documents_file', d).processingStatus)]_vars

\* C4: a document whose registry status is completed and which produced at
\* least one chunk has all its chunks in the vector store.
C4_CompletedIsIndexed ==
    \A d \in 1..MaxDocs :
        (HasRecord(documents_file, d)
            /\ RecordOf(documents_file, d).processingStatus = "completed") =>
        \A k \in 0..(RecordOf(documents_file, d).chunkCount - 1) :
            \E i \in StoredChunksOf(metadata, d) : metadata[i].chunk_index = k

\* C5: when a step of background processing fails, the failure handling
\* removes no record from the registry, and from then on the document's
\* record, while it is in the registry, has status failed, the vector store
\* holds no chunk with its documentId and no search returns one.
Ids(file) == {load_documents(file)[i].id : i \in 1..Len(load_documents(file))}
TaskFailed(t) == t.pc = "done" /\ t.failed

C5_FailedIsListedNotSearchable ==
    [][\A d \in 1..MaxDocs :
          /\ (TaskFailed(tasks'[d]) /\ ~TaskFailed(tasks[d])) =>
                /\ Ids(documents_file') = Ids(documents_file)
                /\ tasks[d].pc \in {"reading", "embedding"}
          /\ TaskFailed(tasks'[d]) =>
                /\ HasRecord(documents_file', d) =>
                      RecordOf(documents_file', d).processingStatus = "failed"
                /\ StoredChunksOf(metadata', d) = {}
                /\ last'.op = "search" =>
                      \A i \in 1..Len(last'.chunks) : last'.chunks[i].documentId # d]_vars

C5_Witness ==
    \E d \in 1..MaxDocs :
        /\ TaskFailed(tasks[d])
        /\ HasRecord(documents_file, d)
        /\ RecordOf(documents_file, d).processingStatus = "failed"
        /\ metadata # <<>>
        /\ last.op = "search" /\ last.chunks # <<>>

\* the surviving records of a delete, in order, and re-keyed 0..n-1
Survivors(md, d) ==
    LET keep == SelectIdx(md, LAMBDA r : r.document_id # d)
    IN  [i \in 1..Len(keep) |-> md[keep[i]]]
Rekey(md) == [i \in 1..Len(md) |-> [md[i] EXCEPT !.key = i - 1]]
DocsIn(md) == {md[i].document_id : i \in 1..Len(md)}
SearchArgs == StoreQueries \X StoreMaxResults \X StoreThresholds
Found(s, a) == Range(vs_search(FAISS_AVAILABLE, s, a[1], a[2], a[3]).chunks)

\* C2: delete_document(d) on a store holding chunks of several documents
\* leaves exactly the records and vectors of the other documents, in their
\* order, keyed 0..n-1, and each of them is found by every search that found
\* it before.
C2_DeleteKeepsOtherDocuments ==
    [][(/\ last'.op = "delete"
        /\ last'.id \in DocsIn(metadata)
        /\ Cardinality(DocsIn(metadata)) >= 2) =>
       LET d == last'.id
           keep == SelectIdx(metadata, LAMBDA r : r.document_id # d)
       IN  /\ metadata' = Rekey(Survivors(metadata, d))
           /\ chunk_counter' = Len(keep)
           /\ FAISS_AVAILABLE => index' = [i \in 1..Len(keep) |-> index[keep[i]]]
           /\ \A a \in SearchArgs :
                {c \in Found(store, a) : c.documentId # d} \subseteq Found(store', a)]_vars

Sim(query, content) == Dot(normalize(encode(query)), normalize(encode(content)))

\* C6: when a stored chunk has the content of the query, a search with
\* max_results >= 1 and a threshold of at most 1 returns a chunk with that
\* content first, with a score at or above the threshold.
C6_IdenticalContentIsTop ==
    (/\ last.op = "search"
     /\ last.code = 200
     /\ \E i \in 1..Len(metadata) : metadata[i].content = last.args[1]) =>
    /\ last.chunks # <<>>
    /\ last.chunks[1].content = last.args[1]
    /\ last.scores[1] >= last.args[3]
    /\ last.scores[1] = UnitNorm * UnitNorm

C6_Witness ==
    /\ FAISS_AVAILABLE
    /\ last.op = "search"
    /\ Len(last.chunks) = 2
    /\ Len(metadata) >= 3
    /\ last.chunks[1].content = last.args[1]
    /\ last.args[3] = UnitNorm * UnitNorm
    /\ last.chunks[1].documentId # last.chunks[2].documentId

C8_AddIsDurable ==
    (last.op = "add_document" /\ last.code = 200) =>
    LET r == vs_load_index(FAISS_AVAILABLE, disk)
    IN  /\ r.metadata = metadata
        /\ r.chunk_counter = chunk_counter
        /\ Len(r.index) = Len(index)

\* C9: every chunk of create_chunks has at most chunk_size tokens, except
\* a chunk that is exactly one sentence which alone exceeds chunk_size.
C9_ChunkWithinSize ==
    \A k \in 1..Len(cp.chunks) :
        \/ Tokens(cp.chunks[k].content) <= cp.chunk_size
        \/ /\ cp.chunks[k].content = cp.sentences[cp.firsts[k]]
           /\ Tokens(cp.sentences[cp.firsts[k]]) > cp.chunk_size

LastWords(ws, n) == SubSeq(ws, Len(ws) - n + 1, Len(ws))

\* the longest suffix of whole words of ws with at most max_tokens tokens
LongestTail(ws, max_tokens) ==
    LastWords(ws, CHOOSE n \in 0..Len(ws) :
                    /\ Tokens(LastWords(ws, n)) <= max_tokens
                    /\ n < Len(ws) => Tokens(LastWords(ws, n + 1)) > max_tokens)

\* C10: with chunk_overlap > 0, every chunk after the first begins with the
\* longest suffix of whole words of the previous chunk that has at most
\* chunk_overlap tokens, followed by the first new sentence of the chunk.
C10_OverlapIsPreviousTail ==
    cp.chunk_overlap > 0 =>
    \A k \in 2..Len(cp.chunks) :
        LET prev == cp.chunks[k-1].content
            cur == cp.chunks[k].content
            ov == LongestTail(prev, cp.chunk_overlap)
            sentence == cp.sentences[cp.firsts[k]]
        IN  /\ Tokens(ov) <= cp.chunk_overlap
            /\ Len(cur) >= Len(ov) + Len(sentence)
            /\ SubSeq(cur, 1, Len(ov)) = ov
            /\ SubSeq(cur, Len(ov) + 1, Len(ov) + Len(sentence)) = sentence

C10_Witness ==
    /\ cp.pc = "done"
    /\ cp.chunk_overlap > 0
    /\ Len(cp.chunks) = 3
    /\ \A k \in 2..3 :
          LET ov == LongestTail(cp.chunks[k-1].content, cp.chunk_overlap)
          IN  /\ ov # <<>>
              /\ SubSeq(cp.chunks[k].content, 1, Len(ov)) = ov
    /\ Len(LongestTail(cp.chunks[1].content, cp.chunk_overlap)) < Len(cp.chunks[1].content)

\* the tokens of all sentences of a text together
TotalTokens(sentences) ==
    LET F[i \in 0..Len(sentences)] ==
            IF i = 0 THEN 0 ELSE F[i-1] + Tokens(sentences[i])
    IN  F[Len(sentences)]

IndicesInOrder(chunks) ==
    \A k \in 1..Len(chunks) :
        /\ chunks[k].chunkIndex = k - 1
        /\ chunks[k].id = chunks[k].chunkIndex

\* C11 as stated: the chunks of create_chunks have chunkIndex 0, 1, ..., n-1
\* in list order and the id chunk_<chunkIndex>, and every text whose
\* sentences total at most chunk_size tokens yields exactly one chunk, with
\* chunkIndex 0.
C11_IndicesAndOneChunkForAnyText ==
    /\ IndicesInOrder(cp.chunks)
    /\ (cp.pc = "done" /\ TotalTokens(cp.sentences) <= cp.chunk_size) =>
          (Len(cp.chunks) = 1 /\ cp.chunks[1].chunkIndex = 0)

\* C11 amended: the chunks of create_chunks have chunkIndex 0, 1, ..., n-1
\* in list order and the id chunk_<chunkIndex>; a text with at least one
\* sentence whose sentences total at most chunk_size tokens yields exactly
\* one chunk, with chunkIndex 0, and a text without a sentence yields none.
C11_IndicesAndOneChunkForSentences ==
    /\ IndicesInOrder(cp.chunks)
    /\ (cp.pc = "done" /\ cp.sentences # <<>>
            /\ TotalTokens(cp.sentences) <= cp.chunk_size) =>
          (Len(cp.chunks) = 1 /\ cp.chunks[1].chunkIndex = 0)
    /\ (cp.pc = "done" /\ cp.sentences = <<>>) => cp.chunks = <<>>

C11_Witness ==
    /\ cp.pc = "done"
    /\ Len(cp.chunks) = 3
    /\ cp.chunks[3].chunkIndex = 2
    /\ cp.chunk_overlap > 0


UnsupportedUpload(l) ==
    l.op = "upload" /\ l.args # <<>> /\ l.args[1] \notin allowed_types

\* C12: an upload whose extension is not one of pdf, docx, txt, xlsx, xls is
\* rejected with an error and adds no record to the registry, schedules no
\* background task and leaves the vector store, in memory and on disk, as it
\* was.
C12_UnsupportedUploadChangesNothing ==
    [][(UnsupportedUpload(last') /\ last' # last) =>
          /\ last'.code # 200
          /\ documents_file' = documents_file
          /\ tasks' = tasks
          /\ next_id' = next_id
          /\ <<index, metadata, chunk_counter, index_file, metadata_file>>' =
                <<index, metadata, chunk_counter, index_file, metadata_file>>]_vars

C12_Witness ==
    /\ UnsupportedUpload(last)
    /\ last.code # 200
    /\ Len(load_documents(documents_file)) = 1
    /\ metadata # <<>>
    /\ next_id = 1

\* C13: an upload with an unsupported extension is answered with a client
\* error (a 4xx status), not with the 5xx status of an internal failure.
C13_UnsupportedIsClientError ==
    UnsupportedUpload(last) => last.code \in 400..499


Registry == load_documents(documents_file)

\* C14: DELETE /documents/{id} for an id that has no record in the registry
\* and no chunk in the vector store answers 200 and leaves index, metadata,
\* chunk_counter, the two store files and the records of the registry as they
\* were; so a delete that directly follows a delete of the same id changes
\* none of them.
C14_DeleteOfAbsentIdIsNoOp ==
    [][/\ (/\ last'.op = "delete"
            /\ ~HasRecord(documents_file, last'.id)
            /\ StoredChunksOf(metadata, last'.id) = {}) =>
          /\ last'.code = 200
          /\ <<index, metadata, chunk_counter, index_file, metadata_file>>' =
                <<index, metadata, chunk_counter, index_file, metadata_file>>
          /\ Registry' = Registry
       /\ (last.op = "delete" /\ last'.op = "delete" /\ last'.id = last.id) =>
          /\ <<index, metadata, chunk_counter, index_file, metadata_file>>' =
                <<index, metadata, chunk_counter, index_file, metadata_file>>
          /\ Registry' = Registry]_vars

C14_Witness ==
    /\ last.op = "delete"
    /\ last.code = 200
    /\ last.id = 0
    /\ FAISS_AVAILABLE
    /\ metadata # <<>>
    /\ Registry # <<>>


EmptyEverywhere ==
    /\ store = NewStore
    /\ metadata_file = File(<<>>)
    /\ vs_load_index(FAISS_AVAILABLE, disk) = NewStore
    /\ FAISS_AVAILABLE => index_file = File(<<>>)
    /\ documents_file = File(<<>>)

\* C15: DELETE /clear answers 200 and leaves an empty index, empty metadata,
\* chunk_counter 0 and an empty registry, in memory and in the files; a
\* clear that directly follows a clear answers 200 and changes nothing.
C15_ClearAllIsIdempotent ==
    [][last'.op = "clear" =>
          /\ last'.code = 200
          /\ EmptyEverywhere'
          /\ last.op = "clear" =>
                <<index, metadata, chunk_counter, index_file, metadata_file,
                  documents_file>>' =
                <<index, metadata, chunk_counter, index_file, metadata_file,
                  documents_file>>]_vars

C15_Witness ==
    /\ last.op = "clear"
    /\ last.code = 200
    /\ EmptyEverywhere
    /\ next_id = MaxDocs
    /\ \A d \in 1..MaxDocs : tasks[d].pc = "done" /\ ~tasks[d].failed
    /\ tasks[1].chunks # <<>>


\* C16: after the same calls of add_document, delete_document and clear_all,
\* a search with the same arguments returns the same chunks in the same
\* order from the store built with FAISS and from the store built without.
C16_BackendsReturnTheSame ==
    last.op = "search" => last.chunks = twin.chunks


\* what an upload with a supported extension does, with the status string
\* its response carries
AcceptedUploadReturns(status) ==
    (/\ last'.op = "upload"
     /\ last' # last
     /\ last'.args[1] \in allowed_types) =>
    LET d == last'.id
    IN  /\ last'.code = 200
        /\ last'.status = status
        /\ d \in 1..MaxDocs
        /\ ~HasRecord(documents_file, d)
        /\ documents_file'.exists
        /\ Registry' = Append(Registry,
                            [id |-> d, content |-> <<>>, chunkCount |-> 0,
                             processingStatus |-> "pending"])
        /\ tasks[d].pc = "none"
        /\ tasks'[d].pc = "scheduled"
        /\ \A e \in 1..MaxDocs : e # d => tasks'[e] = tasks[e]
        /\ StoredChunksOf(metadata', d) = {}
        /\ <<index, metadata, chunk_counter, index_file, metadata_file>>' =
              <<index, metadata, chunk_counter, index_file, metadata_file>>

\* C17 as stated: an upload with a supported extension adds exactly one
\* record, with status pending, to the saved registry, schedules the
\* document's task and returns the id with status "processing-scheduled";
\* when it returns the task has not run and the store holds no chunk of the
\* document.
C17_UploadReturnsProcessingScheduled ==
    [][AcceptedUploadReturns("processing-scheduled")]_vars

\* C17 amended: the same, and the status string of the response is
\* "processing".
C17_UploadReturnsProcessing ==
    [][AcceptedUploadReturns("processing")]_vars

C17_Witness ==
    /\ last.op = "upload"
    /\ last.code = 200
    /\ last.id = 2
    /\ last.status = "processing"
    /\ tasks[2].pc = "scheduled"
    /\ RecordOf(documents_file, 2).processingStatus = "pending"
    /\ StoredChunksOf(metadata, 1) # {}
    /\ StoredChunksOf(metadata, 2) = {}


SumChunkCount(documents) ==
    LET F[i \in 0..Len(documents)] ==
            IF i = 0 THEN 0 ELSE F[i-1] + documents[i].chunkCount
    IN  F[Len(documents)]

\* C18: GET /status answers 200 with documentsCount the number of records
\* of the registry, chunksCount the sum of their chunkCount and the
\* configured embeddingModel, whatever the registry holds.
C18_StatusReportsCounts ==
    last.op = "status" =>
        /\ last.code = 200
        /\ last.args = <<Len(Registry), SumChunkCount(Registry)>>
        /\ last.status = "all-MiniLM-L6-v2"


\* C19: every chunk held by the vector store has the document_id of a
\* record that is in the registry, in every state between two request
\* handlers (a handler runs without giving up the event loop to another
\* request, so every state of Spec is one).
C19_ChunksReferenceRecords ==
    \A i \in 1..Len(metadata) : HasRecord(documents_file, metadata[i].document_id)


\* index and metadata as a writer leaves them when its mutation is complete
PairComplete(faiss, s) ==
    IF faiss
    THEN /\ Len(s.index) = Len(s.metadata)
         /\ \A i \in 1..Len(s.index) : Truthy(DictGet(s.metadata, i - 1))
    ELSE /\ s.index = None
         /\ \A i \in 1..Len(s.metadata) : Truthy(s.metadata[i].embedding)

\* C20: whenever the event loop can pass control to a search or to another
\* writer (every state of the specification: the steps are the stretches
\* of code between two suspending awaits), no mutation of add_document,
\* delete_document, rebuild_index or clear_all is partially applied: the
\* index has one vector per metadata record and every index position has
\* its record; a task suspended inside add_document has not changed them.
C20_NoPartialMutationObserved ==
    /\ PairComplete(FAISS_AVAILABLE, store)
    /\ \A d \in 1..MaxDocs :
          tasks[d].pc = "embedding" => StoredChunksOf(metadata, d) = {}

C20_Witness ==
    /\ FAISS_AVAILABLE
    /\ tasks[1].pc = "embedding"
    /\ tasks[2].pc = "done"
    /\ Len(index) = 2
    /\ last.op = "search"
    /\ last.chunks # <<>>


KeysOf(md) == {md[i].key : i \in 1..Len(md)}

\* C21: the metadata keys are exactly 0..chunk_counter-1, one record per
\* key; add_document of n chunks has given them the n highest keys in chunk
\* order; with FAISS the index holds chunk_counter vectors and the vector at
\* position i is the embedding of the record with key i.
C21_KeysFollowTheCounter ==
    /\ KeysOf(metadata) = 0..(chunk_counter - 1)
    /\ Len(metadata) = chunk_counter
    /\ (last.op = "add_document" /\ last.code = 200) =>
          \A i \in 1..Len(last.args) :
              LET r == DictGet(metadata, chunk_counter - Len(last.args) + i - 1)
              IN  /\ Truthy(r)
                  /\ r[1].document_id = last.id
                  /\ r[1].chunk_index = i - 1
                  /\ r[1].content = last.args[i]
    /\ FAISS_AVAILABLE =>
          /\ Len(index) = chunk_counter
          /\ \A i \in 1..Len(index) :
                LET r == DictGet(metadata, i - 1)
                IN  Truthy(r) /\ index[i] = normalize(encode(r[1].content))


Terminal(d) ==
    HasRecord(documents_file, d) =>
        RecordOf(documents_file, d).processingStatus \in {"completed", "failed"}

\* C22: the task of every uploaded document comes to its end, and from
\* then on the document's record, unless it has been deleted, has status
\* completed or failed, whether the task succeeded or raised at any step.
C22_EveryDocumentFinishes ==
    /\ \A d \in 1..MaxDocs :
          (tasks[d].pc = "scheduled") ~> (tasks[d].pc = "done" /\ Terminal(d))
    /\ [](\A d \in 1..MaxDocs : tasks[d].pc = "done" => Terminal(d))

C22_Witness ==
    /\ tasks[1].pc = "done" /\ tasks[1].failed /\ tasks[1].chunks # <<>>
    /\ HasRecord(documents_file, 1)
    /\ RecordOf(documents_file, 1).processingStatus = "failed"
    /\ tasks[2].pc = "done" /\ ~tasks[2].failed
    /\ HasRecord(documents_file, 2)
    /\ RecordOf(documents_file, 2).processingStatus = "completed"


\* the store a new process loads has an index and metadata that disagree
ReloadedDisagrees ==
    /\ Len(index) # Len(metadata)
    /\ Len(index) # chunk_counter

\* C23 as stated: a process that dies in save_index between the write of
\* the index file and the write of the metadata file leaves files from
\* which load_index builds a store whose index has a number of vectors
\* different from its number of metadata records and from chunk_counter.
C23_CrashInSaveAlwaysDisagrees ==
    last.op = "crash" => ReloadedDisagrees

\* C23 amended: such a crash leaves the new index file next to the old
\* metadata file; with FAISS, when the metadata file exists and its number
\* of records differs from the number of vectors written, the store built
\* by load_index has an index whose number of vectors differs from its
\* number of metadata records and from chunk_counter; otherwise (no FAISS,
\* no metadata file yet, or equal numbers) the loaded store agrees.
C23_CrashInSaveDisagreesWhenCountsDiffer ==
    [][last'.op = "crash" =>
          /\ metadata_file' = metadata_file
          /\ ReloadedDisagrees' <=>
                (/\ FAISS_AVAILABLE
                 /\ metadata_file.exists
                 /\ Len(index_file'.data) # Len(metadata_file.data))]_vars

C23_Witness ==
    /\ last.op = "crash"
    /\ last.status = "add_document"
    /\ FAISS_AVAILABLE
    /\ metadata_file.exists
    /\ Len(index) = 2
    /\ Len(metadata) = 1
    /\ chunk_counter = 1


\* C24: DELETE /documents/{id} calls the vector store first and the
\* registry second: when the vector store raises, the request is answered
\* with an error and the registry file is as it was; when the request is
\* answered 200, the registry has no record of the id and the store no
\* chunk of it.
C24_DeleteStoreFirstThenRecord ==
    [][last'.op = "delete" =>
          IF last'.code = 200
          THEN /\ ~HasRecord(documents_file', last'.id)
               /\ StoredChunksOf(metadata', last'.id) = {}
          ELSE /\ last'.code = 500
               /\ documents_file' = documents_file]_vars

C24_Witness ==
    /\ last.op = "delete"
    /\ last.code = 500
    /\ HasRecord(documents_file, last.id)
    /\ StoredChunksOf(metadata, last.id) = {}
    /\ Len(index) > Len(metadata)


\* C25: with uploads and their tasks interleaved in any way, and no delete
\* and no failure, every accepted document has exactly one record, with
\* the content and chunkCount of its own file and the status of its own
\* task; when its task has ended the store holds each of its chunks once,
\* with its own content; and no metadata key is used twice.
C25_NoLostUpdate ==
    /\ Len(Registry) = next_id
    /\ \A d \in 1..next_id :
          /\ HasRecord(documents_file, d)
          /\ tasks[d].pc = "scheduled" =>
                RecordOf(documents_file, d).processingStatus = "pending"
          /\ tasks[d].pc = "reading" =>
                RecordOf(documents_file, d).processingStatus = "processing"
          /\ tasks[d].pc = "done" =>
                RecordOf(documents_file, d).processingStatus = "completed"
          /\ tasks[d].pc \in {"embedding", "done"} =>
                /\ RecordOf(documents_file, d).chunkCount = Len(tasks[d].chunks)
                /\ RecordOf(documents_file, d).content =
                      [k \in 1..Len(tasks[d].chunks) |-> tasks[d].chunks[k].content]
          /\ tasks[d].pc = "done" =>
                /\ Cardinality(StoredChunksOf(metadata, d)) = Len(tasks[d].chunks)
                /\ \A k \in 1..Len(tasks[d].chunks) :
                      \E i \in StoredChunksOf(metadata, d) :
                          /\ metadata[i].chunk_index = k - 1
                          /\ metadata[i].content = tasks[d].chunks[k].content
    /\ Cardinality(KeysOf(metadata)) = Len(metadata)
    /\ FAISS_AVAILABLE => Len(index) = Len(metadata)

C25_Witness ==
    /\ next_id = 2
    /\ tasks[1].pc = "done" /\ Len(tasks[1].chunks) = 2
    /\ tasks[2].pc = "done" /\ Len(tasks[2].chunks) = 1
    /\ Len(metadata) = 3
    /\ metadata[1].document_id = 2
    /\ RecordOf(documents_file, 1).chunkCount = 2
    /\ RecordOf(documents_file, 2).chunkCount = 1


\* the words of sentences a..b, joined
Joined(sentences, a, b) ==
    LET F[i \in (a-1)..b] == IF i = a - 1 THEN <<>> ELSE F[i-1] \o sentences[i]
    IN  F[b]

\* C26: when create_chunks returns, each chunk is the overlap taken from
\* the chunk before it (none for the first) followed by one or more whole
\* sentences, and these sentences, chunk after chunk, are the sentences of
\* the text in order, the last chunk ending with the last sentence; there
\* are at most as many chunks as sentences and none for a text without a
\* sentence; a sentence above chunk_size is in one piece like any other.
C26_ChunksAreTheSentences ==
    cp.pc = "done" =>
    LET n == Len(cp.chunks)
    IN  /\ n <= Len(cp.sentences)
        /\ cp.sentences = <<>> => n = 0
        /\ cp.sentences # <<>> => (n >= 1 /\ cp.firsts[1] = 1)
        /\ \A k \in 1..n :
              LET ov == IF k = 1 THEN <<>>
                        ELSE LongestTail(cp.chunks[k-1].content, cp.chunk_overlap)
                  b == IF k = n THEN Len(cp.sentences) ELSE cp.firsts[k+1] - 1
              IN  /\ cp.firsts[k] <= b
                  /\ cp.chunks[k].content = ov \o Joined(cp.sentences, cp.firsts[k], b)

C26_Witness ==
    /\ cp.pc = "done"
    /\ Len(cp.sentences) = 3
    /\ Len(cp.chunks) = 2
    /\ cp.chunk_overlap > 0
    /\ Tokens(cp.sentences[3]) > cp.chunk_size
    /\ cp.firsts = <<1, 3>>


\* C27: POST /search calls the vector store with the maxResults and the
\* similarityThreshold of the request when the request has them, 0
\* included, and with the configured 10 and 0.7 only when it has not.
C27_RequestValuesArePassed ==
    (last.op = "search" /\ Len(last.args) = 5) =>
        /\ last.args[2] = IF last.args[4] = <<>> THEN 10 ELSE last.args[4][1]
        /\ last.args[3] = IF last.args[5] = <<>> THEN 70 ELSE last.args[5][1]


\* C28: a record leaves the registry only through a DELETE of its id or a
\* DELETE /clear that answered 200; no upload, status update or write-back
\* saves a registry without a record that was in it, also when
\* load_documents has failed.
C28_RecordsLeaveOnlyByDelete ==
    [][\A d \in Ids(documents_file) \ Ids(documents_file') :
          /\ last'.code = 200
          /\ \/ last'.op = "delete" /\ last'.id = d
             \/ last'.op = "clear"]_vars


\* C29: when a write of save_index fails during add_document, the call
\* reports the failure: the task ends as failed and the document's record,
\* if there is one, has status failed; it does not end as a success with
\* files that differ from the store in memory.
C29_FailedSaveIsReported ==
    (last.op = "task" /\ last.status = "save_index failed") =>
        /\ TaskFailed(tasks[last.id])
        /\ HasRecord(documents_file, last.id) =>
              RecordOf(documents_file, last.id).processingStatus = "failed"


\* the pages that extract a non-empty text without raising
GoodPages(pages) == {n \in 1..Len(pages) : ~pages[n].raises /\ pages[n].text # 0}

\* C30: extract_pdf_text never fails because a page raises; the text it
\* returns consists of one marker per page that extracted a non-empty text
\* without raising, carrying the page's 1-based number, in page order, each
\* followed by the text of that page; other pages add nothing.
C30_PdfSkipsFailingPages ==
    /\ pdf.pc # "failed"
    /\ pdf.pc = "done" =>
          LET good == GoodPages(pdf.pages)
              k == Len(pdf.text) \div 2
          IN  /\ Len(pdf.text) = 2 * Cardinality(good)
              /\ \A j \in 1..k :
                    /\ pdf.text[2*j - 1].kind = "marker"
                    /\ pdf.text[2*j - 1].v \in good
                    /\ pdf.text[2*j] = [kind |-> "text",
                                        v |-> pdf.pages[pdf.text[2*j - 1].v].text]
                    /\ j > 1 => pdf.text[2*j - 3].v < pdf.text[2*j - 1].v

C30_Witness ==
    /\ pdf.pc = "done"
    /\ Len(pdf.pages) = 3
    /\ pdf.pages[1].raises
    /\ pdf.pages[2].text # 0
    /\ pdf.pages[3].text # 0
    /\ Len(pdf.text) = 4


=============================================================================
